---- MODULE Spec2Model ----
(***************************************************************************)
(* Metropolis simulation of the 2D Ising model of src/game/animation.js:   *)
(* the lattice (IsingModel), its parameters (IsingParameter), the batch of *)
(* trials (IsingSystem.updateStateByMetropolis) and the frame loop (init,  *)
(* tick, requestAnimationFrame).                                           *)
(*                                                                         *)
(* Numbers.  A JavaScript number is a record with a tag ("number", "NaN"   *)
(* or "undefined").  Integers (spins, energies, the change rate, a slider  *)
(* position) are kept exactly.  A temperature is kept exactly in units of  *)
(* 1e-11 as two limbs: micro * 1e-6 + sub * 1e-11 with 0 <= sub < 100000.  *)
(* An exponent is kept in thousandths, a value of Math.exp and a draw of   *)
(* Math.random in millionths.                                              *)
(***************************************************************************)
EXTENDS Integers, Sequences, FiniteSets, TLC

VARIABLES xSize, ySize, state, temperature, changeRate,
          pc, i, pending, trial, buffer

vars == <<xSize, ySize, state, temperature, changeRate,
          pc, i, pending, trial, buffer>>

(***************************************************************************)
(* Bounds of the model.                                                    *)
(***************************************************************************)
\* largest number of cells of a lattice of the frame-loop specification
MaxCells == 6
\* largest number of cells of a lattice of the energy specification
MaxPureCells == 9
\* largest side of the lattices of equal spins of the energy specification
MaxUniformSize == 4
\* number of values of Math.random() explored: k / DrawRes, k < DrawRes,
\* rounded up to a millionth
DrawRes == 6

(***************************************************************************)
(* Fixed-point scales of the number representation.                        *)
(***************************************************************************)
Milli == 1000
Micro == 1000000
SubPerMicro == 100000

(***************************************************************************)
(* JavaScript values.                                                      *)
(***************************************************************************)
Num(v) == [tag |-> "number", val |-> v]
NaN == [tag |-> "NaN", val |-> 0]
Undefined == [tag |-> "undefined", val |-> 0]
IsNum(a) == a.tag = "number"

\* a temperature: micro * 1e-6 + sub * 1e-11
Temp(m, s) == [tag |-> "number", micro |-> m, sub |-> s]
TempNaN == [tag |-> "NaN", micro |-> 0, sub |-> 0]
TempUndefined == [tag |-> "undefined", micro |-> 0, sub |-> 0]

Abs(a) == IF a < 0 THEN -a ELSE a
Sign(a) == IF a < 0 THEN -1 ELSE IF a > 0 THEN 1 ELSE 0
\* division of JavaScript numbers, truncated towards zero at the model's scale
Quot(a, b) == Sign(a) * Sign(b) * (Abs(a) \div Abs(b))

\* a < b of JavaScript for an integer a: false when b is NaN or undefined
JSLess(a, b) == IsNum(b) /\ a < b.val

\* Math.min(a, b): NaN when an argument is NaN
MathMin(a, b) ==
    IF ~IsNum(a) \/ ~IsNum(b) THEN NaN
    ELSE IF a.val <= b.val THEN a ELSE b

(***************************************************************************)
(* Math.exp.  Argument in thousandths, value in millionths.                *)
(***************************************************************************)
\* Math.exp returns 0 below -745.133 (underflow of a double)
ExpUnderflow == 745133
\* above e^7 the model keeps only "at least 1000": every caller compares
\* such a value with 1 or with a draw below 1
ExpTop == 7000
ExpHuge == 1000000000
\* e = EDigits / EScale
EDigits == 27183
EScale == 10000

RECURSIVE ExpSeries(_, _, _)
\* sum of the terms k, k+1, ... of the series of e^(f/1000), f in 0..999,
\* where term is the term k-1, in millionths
ExpSeries(f, k, term) ==
    LET t == (term * f) \div (Milli * k)
    IN  IF t = 0 THEN 0 ELSE t + ExpSeries(f, k + 1, t)

MulE(r) == (r \div EScale) * EDigits + ((r % EScale) * EDigits) \div EScale
DivE(r) == (r \div EDigits) * EScale + ((r % EDigits) * EScale) \div EDigits

RECURSIVE ExpScale(_, _)
\* r * e^n
ExpScale(r, n) ==
    IF n = 0 THEN r
    ELSE IF n > 0 THEN ExpScale(MulE(r), n - 1)
    ELSE IF r = 0 THEN 0
    ELSE ExpScale(DivE(r), n + 1)

\* e^(x/1000) in millionths, for an integer x
ExpMicro(x) ==
    IF x < -ExpUnderflow THEN 0
    ELSE IF x > ExpTop THEN ExpHuge
    ELSE LET n == x \div Milli
             f == x - n * Milli
             r == ExpScale(Micro + ExpSeries(f, 1, Micro), n)
         IN  IF r = 0 THEN 1 ELSE r

\* Math.exp(a)
MathExp(a) == IF ~IsNum(a) THEN NaN ELSE Num(ExpMicro(a.val))

(***************************************************************************)
(* Math.log.  Argument an integer >= 1, value in thousandths.              *)
(***************************************************************************)
RECURSIVE LnSeries(_, _, _)
\* sum of y^k / k over the odd k, k+2, ... where p is y^k, in thousandths
LnSeries(y, k, p) ==
    IF p = 0 THEN 0 ELSE p \div k + LnSeries(y, k + 2, (p * y * y) \div (Milli * Milli))

RECURSIVE LnReduce(_, _)
\* ln(r / 1000) in thousandths plus n * 1000, for r >= 1000
LnReduce(r, n) ==
    IF r * (EScale \div Milli) >= EDigits THEN LnReduce(DivE(r), n + 1)
    ELSE LET y == ((r - Milli) * Milli) \div (r + Milli)
         IN  n * Milli + 2 * LnSeries(y, 1, y)

MathLog(v) == LnReduce(v * Milli, 0)

(***************************************************************************)
(* parseFloat and parseInt.  The value of an input element is a sequence   *)
(* of characters.                                                          *)
(***************************************************************************)
DigitChars == <<"0", "1", "2", "3", "4", "5", "6", "7", "8", "9">>
IsDigit(c) == \E k \in 1..10 : DigitChars[k] = c
DigitVal(c) == (CHOOSE k \in 1..10 : DigitChars[k] = c) - 1

RECURSIVE ParseDigits(_, _, _)
\* the value of the digits of s from position k on, after the value acc
ParseDigits(s, k, acc) ==
    IF k > Len(s) \/ ~IsDigit(s[k]) THEN acc
    ELSE ParseDigits(s, k + 1, 10 * acc + DigitVal(s[k]))

\* parseFloat(s) for s without a fraction or an exponent: NaN unless s
\* starts with digits, after an optional sign
parseFloat(s) ==
    LET neg == Len(s) > 0 /\ s[1] = "-"
        first == IF neg THEN 2 ELSE 1
    IN  IF first > Len(s) \/ ~IsDigit(s[first]) THEN NaN
        ELSE Num((IF neg THEN -1 ELSE 1) * ParseDigits(s, first, 0))

\* parseInt(v) of a number v given in millionths: the digits before the
\* decimal point of its decimal form (values below 1e-6, which JavaScript
\* prints with an exponent, are outside the representation)
parseInt(v) == IF ~IsNum(v) THEN NaN ELSE Num(Quot(v.val, Micro))

(***************************************************************************)
(* Arithmetic of temperatures.                                             *)
(***************************************************************************)
TempNorm(m, s) == Temp(m + s \div SubPerMicro, s % SubPerMicro)
TempAdd(a, b) == TempNorm(a.micro + b.micro, a.sub + b.sub)
TempSub(a, b) == TempNorm(a.micro - b.micro, a.sub - b.sub)
TempMulInt(a, k) == TempNorm(a.micro * k, a.sub * k)
\* a / n for an integer 0 < n <= 1000, truncated to 1e-11
TempDivInt(a, n) ==
    TempNorm(a.micro \div n, ((a.micro % n) * SubPerMicro + a.sub) \div n)

TempIsZero(t) == t.micro = 0 /\ t.sub = 0
TempIsPositive(t) == IsNum(t) /\ (t.micro > 0 \/ (t.micro = 0 /\ t.sub > 0))
\* a >= b
TempGeq(a, b) == a.micro > b.micro \/ (a.micro = b.micro /\ a.sub >= b.sub)

\* magnitude beyond which an exponent is kept as "infinite": Math.exp has
\* left its range (underflow below -745.133, overflow above 709.78)
ExpSat == 1000000

\* n / t in thousandths for an integer n and a temperature t
TempQuot(n, t) ==
    IF ~IsNum(t) THEN NaN
    ELSE IF TempIsZero(t) THEN (IF n = 0 THEN NaN ELSE Num(Sign(n) * ExpSat))
    ELSE LET tm == Quot(t.micro, Milli)
             st == IF t.micro < 0 THEN -1 ELSE 1
             q == IF tm = 0 THEN Sign(n) * st * ExpSat ELSE Quot(n * Micro, tm)
         IN  IF q > ExpSat THEN Num(ExpSat)
             ELSE IF q < -ExpSat THEN Num(-ExpSat)
             ELSE Num(q)

(***************************************************************************)
(* The sliders.                                                            *)
(***************************************************************************)
minPosition == 0
maxPosition == 100
minTemperature == Temp(0, 1)
maxTemperature == Temp(4538370, 62843)
minChangeRate == 100
maxChangeRate == 100000

\* values of the element "temperature-position" explored
TemperatureInputs == {<<>>, <<"-", "1">>, <<"0">>, <<"5", "0">>, <<"1", "0", "0">>}
\* values of the element "change-rate-position" explored
ChangeRateInputs == {<<>>, <<"-", "1", "0", "0">>, <<"-", "5", "0">>}

calcTemperatureFromInputPosition(value) ==
    LET temperaturePosition == parseFloat(value)
        scale == TempDivInt(TempSub(maxTemperature, minTemperature),
                            maxPosition - minPosition)
    IN  IF ~IsNum(temperaturePosition) THEN TempNaN
        ELSE TempAdd(minTemperature,
                     TempMulInt(scale, temperaturePosition.val - minPosition))

calcChangeRateFromInputPosition(value) ==
    LET changeRatePosition == parseFloat(value)
        minLogChangeRate == MathLog(minChangeRate)
        maxLogChangeRate == MathLog(maxChangeRate)
        \* in millionths
        scale == ((maxLogChangeRate - minLogChangeRate) * Milli)
                     \div (maxPosition - minPosition)
    IN  IF ~IsNum(changeRatePosition) THEN NaN
        ELSE parseInt(MathExp(Num(minLogChangeRate
                 + Quot(scale * (changeRatePosition.val - minPosition), Milli))))

(***************************************************************************)
(* IsingModel: the lattice.                                                *)
(***************************************************************************)
\* the values of Math.random() explored, in millionths: 0 <= r < 1000000
Draws == {(k * Micro + DrawRes - 1) \div DrawRes : k \in 0..(DrawRes - 1)}

\* Math.floor(Math.random() * n) for the draw r
RandomIndex(r, n) == (r * n) \div Micro

\* the spin made of a random bit
SpinOfBit(randomBit) == 2 * randomBit - 1

\* the values a cell can get in the constructor
InitialSpins == {SpinOfBit(RandomIndex(r, 2)) : r \in Draws}

\* the lattices the constructor can build
InitialStates(w, h) == [0..(w - 1) -> [0..(h - 1) -> InitialSpins]]

\* the operator % of JavaScript for a divisor b > 0: the remainder has the
\* sign of the dividend
JSRem(a, b) == IF a >= 0 THEN a % b ELSE - ((- a) % b)

\* const xPlus1 = (x + 1) % this.xSize
xPlus1(x, w) == JSRem(x + 1, w)

\* (x - 1) % this.xSize
xMinus1NoOffset(x, w) == JSRem(x - 1, w)

\* const xMinus1 = (x - 1 + this.xSize) % this.xSize
xMinus1(x, w) == JSRem(x - 1 + w, w)

\* const yPlus1 = (y + 1) % this.ySize
yPlus1(y, h) == JSRem(y + 1, h)

\* const yMinus1 = (y - 1 + this.ySize) % this.ySize
yMinus1(y, h) == JSRem(y - 1 + h, h)

\* the sum over the set of the neighbours, each counted once
calcBondEnergyDistinct(s, w, h, x, y) ==
    LET RECURSIVE Sum(_)
        Sum(N) == IF N = {} THEN 0
                  ELSE LET n == CHOOSE n \in N : TRUE
                       IN  - s[x][y] * s[n[1]][n[2]] + Sum(N \ {n})
    IN  Sum({<<xPlus1(x, w), y>>, <<xMinus1(x, w), y>>,
             <<x, yPlus1(y, h)>>, <<x, yMinus1(y, h)>>})

\* IsingModel.calcBondEnergy(x, y) on the lattice s of size w * h
calcBondEnergy(s, w, h, x, y) ==
    - s[x][y] * s[xPlus1(x, w)][y]
    - s[x][y] * s[xMinus1(x, w)][y]
    - s[x][y] * s[x][yPlus1(y, h)]
    - s[x][y] * s[x][yMinus1(y, h)]

\* IsingSystem.calcEnergyDifference(x, y)
calcEnergyDifference(s, w, h, x, y) == -2 * calcBondEnergy(s, w, h, x, y)

\* this.model.state[x][y] -= this.model.state[x][y]
NegateBySubtraction(s, x, y) == [s EXCEPT ![x][y] = s[x][y] - s[x][y]]

\* this.model.state[x][y] = - Math.abs(this.model.state[x][y])
NegateOfAbs(s, x, y) == [s EXCEPT ![x][y] = - Abs(s[x][y])]

\* this.model.state[x] = this.model.state[x].map(spin => - spin)
NegateColumn(s, x, y) == [s EXCEPT ![x] = [yy \in DOMAIN s[x] |-> - s[x][yy]]]

\* this.model.state[x][y] = - this.model.state[x][y]
Negate(s, x, y) == [s EXCEPT ![x][y] = - s[x][y]]

(***************************************************************************)
(* The Metropolis decision.                                                *)
(***************************************************************************)
\* Math.min(1, (energyDifference / this.parameter.temperature))
MetropolisExponentNoMinus(energyDifference, t) ==
    MathMin(Num(Milli), TempQuot(energyDifference, t))

\* Math.max(1, (- energyDifference / this.parameter.temperature))
MetropolisExponentMax(energyDifference, t) ==
    LET q == TempQuot(- energyDifference, t)
    IN  IF ~IsNum(q) THEN NaN ELSE IF q.val >= Milli THEN q ELSE Num(Milli)

\* Math.min(1, (- energyDifference / this.parameter.temperature))
MetropolisExponent(energyDifference, t) ==
    MathMin(Num(Milli), TempQuot(- energyDifference, t))

\* Math.random() < p for the draw r and the number p, in millionths
RandomBelow(r, p) == IsNum(p) /\ r < p.val

\* Math.random() < Math.exp(exponent)
Accepts(energyDifference, t, r) ==
    RandomBelow(r, MathExp(MetropolisExponent(energyDifference, t)))

(***************************************************************************)
(* The state of the page after init() and the steps of tick().             *)
(***************************************************************************)
NoTrial == [x |-> -1, y |-> -1, spin |-> 0, energyDifference |-> 0,
            rnd |-> 0, accepted |-> FALSE]

\* two frames requested
RequestAnimationFrameTwice == pending' = pending + 2

\* requestAnimationFrame(function () { tick(myBoard); })
RequestAnimationFrame == pending' = pending + 1

\* window.onload = init has run: new PlayerBoard(canvas, xSize, ySize) with
\* no temperature and no changeRate, and one frame requested
Init ==
    /\ xSize \in 1..MaxCells
    /\ ySize \in 1..MaxCells
    /\ xSize * ySize <= MaxCells
    /\ state \in InitialStates(xSize, ySize)
    /\ temperature = TempUndefined
    /\ changeRate = Undefined
    /\ pc = "idle"
    /\ i = 0
    /\ pending = 1
    /\ trial = NoTrial
    /\ buffer = "blank"

\* the browser runs a requested frame callback: tick(myBoard) starts and
\* enters updateStateByMetropolis with var i = 0
TickStart ==
    /\ pc = "idle"
    /\ pending > 0
    /\ pending' = pending - 1
    /\ pc' = "batch"
    /\ i' = 0
    /\ trial' = NoTrial
    /\ UNCHANGED <<xSize, ySize, state, temperature, changeRate, buffer>>

\* the loop left after its first pass
LoopContinuesEarlyExit(n, rate) == JSLess(n, rate) /\ n < 1

\* i < this.parameter.changeRate
LoopContinues(n, rate) == JSLess(n, rate)

\* const x = Math.floor(Math.random() * this.model.xSize)
DrawX ==
    /\ pc = "batch"
    /\ LoopContinues(i, changeRate)
    /\ \E r \in Draws : trial' = [NoTrial EXCEPT !.x = RandomIndex(r, xSize)]
    /\ pc' = "drawY"
    /\ UNCHANGED <<xSize, ySize, state, temperature, changeRate, i, pending, buffer>>

\* const y = Math.floor(Math.random() * this.model.ySize)
DrawY ==
    /\ pc = "drawY"
    /\ \E r \in Draws : trial' = [trial EXCEPT !.y = RandomIndex(r, ySize)]
    /\ pc' = "decide"
    /\ UNCHANGED <<xSize, ySize, state, temperature, changeRate, i, pending, buffer>>

\* the rest of the loop body at the cell (x, y) with the value r of
\* Math.random(): the energy difference, the decision, the negation
DecideWith(x, y, r) ==
    LET energyDifference == calcEnergyDifference(state, xSize, ySize, x, y)
        accepted == Accepts(energyDifference, temperature, r)
    IN  /\ state' = IF accepted THEN Negate(state, x, y) ELSE state
        /\ trial' = [x |-> x, y |-> y, spin |-> state[x][y],
                     energyDifference |-> energyDifference,
                     rnd |-> r, accepted |-> accepted]
        /\ buffer' = IF accepted /\ buffer = "current" THEN "stale" ELSE buffer

\* the decision of a trial, then i++
Decide ==
    /\ pc = "decide"
    /\ \E r \in Draws : DecideWith(trial.x, trial.y, r)
    /\ i' = i + 1
    /\ pc' = "batch"
    /\ UNCHANGED <<xSize, ySize, temperature, changeRate, pending>>

\* the loop condition fails: updateStateByMetropolis returns and
\* drawCurrentIsingState starts
BatchDone ==
    /\ pc = "batch"
    /\ ~LoopContinues(i, changeRate)
    /\ pc' = "convert"
    /\ trial' = NoTrial
    /\ UNCHANGED <<xSize, ySize, state, temperature, changeRate, i, pending, buffer>>

\* isingCanvas.convertIsingStateIntoBufferData(model.state): the buffer
\* gets the colours of the present lattice
ConvertIsingStateIntoBufferData ==
    /\ pc = "convert"
    /\ buffer' = "current"
    /\ pc' = "draw"
    /\ UNCHANGED <<xSize, ySize, state, temperature, changeRate, i, pending, trial>>

\* isingCanvas.drawCurrentBuffer()
DrawCurrentBuffer ==
    /\ pc = "draw"
    /\ pc' = "update"
    /\ UNCHANGED <<xSize, ySize, state, temperature, changeRate, i, pending,
                   trial, buffer>>

\* IsingParameter.updateTemperature(temperature)
updateTemperature(t) == temperature' = t

\* IsingParameter.updateChangeRate(changeRate)
updateChangeRate(c) == changeRate' = c

\* the sliders' values stored by a handler of their input events, which
\* also runs between two passes of the loop of the batch
UpdateParametersOnInput(tv, cv) ==
    /\ pc \in {"update", "batch"}
    /\ updateTemperature(calcTemperatureFromInputPosition(tv))
    /\ updateChangeRate(calcChangeRateFromInputPosition(cv))
    /\ pc' = IF pc = "update" THEN "schedule" ELSE pc
    /\ UNCHANGED <<xSize, ySize, state, i, pending, trial, buffer>>

\* tick reads the two sliders, whose values are tv and cv, and stores the
\* parameters
UpdateParametersWith(tv, cv) ==
    /\ pc = "update"
    /\ updateTemperature(calcTemperatureFromInputPosition(tv))
    /\ updateChangeRate(calcChangeRateFromInputPosition(cv))
    /\ pc' = "schedule"
    /\ UNCHANGED <<xSize, ySize, state, i, pending, trial, buffer>>

UpdateParameters ==
    \E tv \in TemperatureInputs, cv \in ChangeRateInputs : UpdateParametersWith(tv, cv)

\* the last statement of tick
Schedule ==
    /\ pc = "schedule"
    /\ RequestAnimationFrame
    /\ pc' = "idle"
    /\ UNCHANGED <<xSize, ySize, state, temperature, changeRate, i, trial, buffer>>

Next ==
    \/ TickStart
    \/ DrawX
    \/ DrawY
    \/ Decide
    \/ BatchDone
    \/ ConvertIsingStateIntoBufferData
    \/ DrawCurrentBuffer
    \/ UpdateParameters
    \/ Schedule

Spec == Init /\ [][Next]_vars

(***************************************************************************)
(* The energy specification: every lattice of at most MaxPureCells cells   *)
(* and the lattices of equal spins up to MaxUniformSize, on which          *)
(* calcEnergyDifference is evaluated once at a cell.                       *)
(***************************************************************************)
InitEnergy ==
    /\ \/ /\ xSize \in 1..MaxPureCells
          /\ ySize \in 1..MaxPureCells
          /\ xSize * ySize <= MaxPureCells
          /\ state \in InitialStates(xSize, ySize)
       \/ /\ xSize \in 1..MaxUniformSize
          /\ ySize \in 1..MaxUniformSize
          /\ \E spin \in InitialSpins :
                state = [x \in 0..(xSize - 1) |-> [y \in 0..(ySize - 1) |-> spin]]
    /\ temperature = TempUndefined
    /\ changeRate = Undefined
    /\ pc = "energy"
    /\ i = 0
    /\ pending = 0
    /\ trial = NoTrial
    /\ buffer = "blank"

EvaluateAt(x, y) ==
    /\ pc = "energy"
    /\ trial = NoTrial
    /\ trial' = [x |-> x, y |-> y, spin |-> state[x][y],
                 energyDifference |-> calcEnergyDifference(state, xSize, ySize, x, y),
                 rnd |-> 0, accepted |-> FALSE]
    /\ UNCHANGED <<xSize, ySize, state, temperature, changeRate, pc, i, pending, buffer>>

NextEnergy == \E x \in 0..(xSize - 1), y \in 0..(ySize - 1) : EvaluateAt(x, y)

SpecEnergy == InitEnergy /\ [][NextEnergy]_vars

(***************************************************************************)
(* The negation specification: on every lattice of at most MaxPureCells    *)
(* cells the assignment of line 251 is done at a cell, then once more at   *)
(* the same cell.  The record of the negation keeps the lattice it started *)
(* from in the field before.                                               *)
(***************************************************************************)
InitNegate ==
    /\ xSize \in 1..MaxPureCells
    /\ ySize \in 1..MaxPureCells
    /\ xSize * ySize <= MaxPureCells
    /\ state \in InitialStates(xSize, ySize)
    /\ temperature = TempUndefined
    /\ changeRate = Undefined
    /\ pc = "negate"
    /\ i = 0
    /\ pending = 0
    /\ trial = NoTrial
    /\ buffer = "blank"

NegateAt(x, y) ==
    /\ pc = "negate"
    /\ i = 0
    /\ state' = Negate(state, x, y)
    /\ trial' = [x |-> x, y |-> y, spin |-> state[x][y], energyDifference |-> 0,
                 rnd |-> 0, accepted |-> TRUE, before |-> state]
    /\ i' = 1
    /\ UNCHANGED <<xSize, ySize, temperature, changeRate, pc, pending, buffer>>

NegateAgain ==
    /\ pc = "negate"
    /\ i = 1
    /\ state' = Negate(state, trial.x, trial.y)
    /\ i' = 2
    /\ UNCHANGED <<xSize, ySize, temperature, changeRate, pc, pending, trial, buffer>>

NextNegate ==
    \/ \E x \in 0..(xSize - 1), y \in 0..(ySize - 1) : NegateAt(x, y)
    \/ NegateAgain

SpecNegate == InitNegate /\ [][NextNegate]_vars

(***************************************************************************)
(* Properties.                                                             *)
(***************************************************************************)
Xs == 0..(xSize - 1)
Ys == 0..(ySize - 1)
\* a trial has just been decided
InTrial == pc = "batch" /\ trial # NoTrial

\* C1: every cell of the lattice holds +1 or -1, after the constructor and
\* after any number of trials in any number of ticks.
C1_SpinsArePlusOrMinusOne ==
    \A x \in Xs, y \in Ys : state[x][y] \in {1, -1}

\* a batch has accepted its second trial and negated a cell
C1_Witness ==
    /\ InTrial
    /\ trial.accepted
    /\ i >= 2
    /\ state[trial.x][trial.y] = - trial.spin

RECURSIVE EnergySum(_, _, _, _)
\* the sum over the cells k, k+1, ... (cell k is (k \div h, k % h)) of
\* s(i,j) * (s(i+1,j) + s(i,j+1)), indices modulo the size
EnergySum(s, w, h, k) ==
    IF k >= w * h THEN 0
    ELSE LET ci == k \div h
             cj == k % h
         IN  s[ci][cj] * (s[(ci + 1) % w][cj] + s[ci][(cj + 1) % h])
                 + EnergySum(s, w, h, k + 1)

\* the energy of the lattice
Energy(s, w, h) == - EnergySum(s, w, h, 0)

\* C2: for every lattice size (1 and 2 included), every lattice and every
\* cell, calcEnergyDifference(x,y) is the energy of the lattice with the
\* cell negated minus the energy of the lattice, and negating the cell
\* negates calcBondEnergy(x,y).
C2_EnergyDifferenceIsEnergyChange ==
    \A x \in Xs, y \in Ys :
        /\ calcEnergyDifference(state, xSize, ySize, x, y)
               = Energy(Negate(state, x, y), xSize, ySize) - Energy(state, xSize, ySize)
        /\ calcBondEnergy(Negate(state, x, y), xSize, ySize, x, y)
               = - calcBondEnergy(state, xSize, ySize, x, y)

\* the same on the lattices of width and height at least 2
C2_FromSizeTwo ==
    xSize >= 2 /\ ySize >= 2 => C2_EnergyDifferenceIsEnergyChange

AllPlus == \A x \in Xs, y \in Ys : state[x][y] = 1

\* the sum of the four spins around (x,y) on the torus
NeighbourSum(x, y) ==
    state[(x + 1) % xSize][y] + state[(x - 1) % xSize][y]
        + state[x][(y + 1) % ySize] + state[x][(y - 1) % ySize]

\* C3: calcBondEnergy(x,y) is -s(x,y) times the sum of the four spins at
\* ((x+1) mod w, y), ((x-1) mod w, y), (x, (y+1) mod h), (x, (y-1) mod h),
\* four terms also where these coincide; on an all-+1 lattice it is -4 at
\* every cell.
C3_BondEnergyFormula ==
    \A x \in Xs, y \in Ys :
        /\ calcBondEnergy(state, xSize, ySize, x, y) = - state[x][y] * NeighbourSum(x, y)
        /\ AllPlus => calcBondEnergy(state, xSize, ySize, x, y) = -4
        /\ trial # NoTrial /\ trial.x = x /\ trial.y = y
               => trial.energyDifference = 2 * state[x][y] * NeighbourSum(x, y)

\* the energy difference was evaluated at the corner of the 4 x 4 lattice
\* of spins +1
C3_WitnessFourByFour ==
    /\ xSize = 4 /\ ySize = 4
    /\ AllPlus
    /\ trial # NoTrial /\ trial.x = 0 /\ trial.y = 0
    /\ trial.energyDifference = 8

\* the energy difference was evaluated at the corner of the 2 x 2 lattice
\* of spins +1, whose neighbours coincide in pairs
C3_Witness ==
    /\ xSize = 2 /\ ySize = 2
    /\ AllPlus
    /\ trial # NoTrial /\ trial.x = 0 /\ trial.y = 0
    /\ trial.energyDifference = 8

TemperatureIsSet == temperature.tag # "undefined"
ChangeRateIsSet == changeRate.tag # "undefined"

\* C4: once updateTemperature has stored a number, the stored temperature
\* is strictly positive and not below the floor minTemperature.
C4_TemperatureAtLeastFloor ==
    TemperatureIsSet /\ IsNum(temperature)
        => TempIsPositive(temperature) /\ TempGeq(temperature, minTemperature)

\* C5: once updateChangeRate has stored a value, the stored changeRate is
\* an integer greater than or equal to 1.
C5_ChangeRateAtLeastOne ==
    ChangeRateIsSet => IsNum(changeRate) /\ changeRate.val >= 1

InvalidTemperature(t) == ~IsNum(t)
InvalidChangeRate(c) == ~IsNum(c) \/ c.val <= 0

\* C6: a parameter update given an invalid value (a change rate that is
\* zero, negative or not a number; a temperature that is not finite) leaves
\* the stored temperature and changeRate as they were.
C6_InvalidUpdateRejected ==
    [][\A tv \in TemperatureInputs, cv \in ChangeRateInputs :
           UpdateParametersWith(tv, cv)
           /\ ( \/ InvalidTemperature(calcTemperatureFromInputPosition(tv))
                \/ InvalidChangeRate(calcChangeRateFromInputPosition(cv)) )
           => temperature' = temperature /\ changeRate' = changeRate]_vars

\* C7: a trial whose energy difference is <= 0 is accepted and negates the
\* spin at (x,y), for every positive temperature and every draw.
C7_DownhillAccepted ==
    InTrial /\ trial.energyDifference <= 0 /\ TempIsPositive(temperature)
        => trial.accepted /\ state[trial.x][trial.y] = - trial.spin

\* a trial of energy difference 0 was accepted with the largest draw
C7_Witness ==
    /\ InTrial
    /\ trial.energyDifference = 0
    /\ TempIsPositive(temperature)
    /\ \A r \in Draws : r <= trial.rnd
    /\ trial.accepted
    /\ state[trial.x][trial.y] = - trial.spin

\* Math.random() < Math.min(1, Math.exp(- energyDifference / temperature)),
\* the Metropolis rule of the textbooks
TextbookAccepts(energyDifference, t, r) ==
    RandomBelow(r, MathMin(Num(Micro), MathExp(TempQuot(- energyDifference, t))))

\* the temperatures of the slider positions 0..100, all positive
SliderTemperatures ==
    {TempAdd(minTemperature,
             TempMulInt(TempDivInt(TempSub(maxTemperature, minTemperature),
                                   maxPosition - minPosition), p - minPosition))
        : p \in minPosition..maxPosition}

\* the draws 0.00, 0.01, ..., 0.99 in millionths
FineDraws == {k * (Micro \div 100) : k \in 0..99}

\* C8 as stated: for some energy difference > 0, temperature > 0 and draw
\* in [0,1) the decision of the source differs from the textbook decision.
C8_DecisionsDiffer ==
    \E energyDifference \in {4, 8},
       t \in {t \in SliderTemperatures \cup {temperature} : TempIsPositive(t)},
       r \in FineDraws :
        Accepts(energyDifference, t, r) # TextbookAccepts(energyDifference, t, r)

\* C8 amended: in every trial at a positive temperature the decision of
\* the source is the textbook decision.
C8_DecisionIsTextbook ==
    InTrial /\ TempIsPositive(temperature)
        => trial.accepted
               = TextbookAccepts(trial.energyDifference, temperature, trial.rnd)

\* a trial of positive energy difference was rejected at a temperature
\* above the floor, where a lower draw is accepted
C8_Witness ==
    /\ InTrial
    /\ trial.energyDifference > 0
    /\ temperature.tag = "number" /\ temperature.micro > 0
    /\ ~trial.accepted
    /\ \E r \in Draws : Accepts(trial.energyDifference, temperature, r)

RenderInProgress == pc \in {"convert", "draw"}

\* C9: the render pass starts only when the batch has done all its trials,
\* it changes no cell and no parameter, and a cell changes only in a step
\* of the batch, never during the render pass.
C9_RenderAfterBatch ==
    [][ /\ RenderInProgress
            => state' = state /\ temperature' = temperature /\ changeRate' = changeRate
        /\ pc' = "convert" /\ pc # "convert"
            => /\ pc = "batch"
               /\ IsNum(changeRate) /\ changeRate.val > 0 => i = changeRate.val
        /\ state' # state \/ i' = i + 1
            => pc = "decide" /\ pc' = "batch"
      ]_vars

\* the render pass is in progress after a batch of at least two trials
C9_Witness ==
    /\ pc = "draw"
    /\ IsNum(changeRate) /\ changeRate.val >= 2
    /\ i = changeRate.val
    /\ buffer = "current"

\* C10: a running tick and the requested frame callbacks are together
\* exactly one: a tick requests its successor as its last step only.
C10_SingleFlight ==
    /\ pending + (IF pc = "idle" THEN 0 ELSE 1) = 1
    /\ pending = 1 => pc = "idle"

\* a later tick is running its batch with no callback pending
C10_Witness ==
    /\ pc = "batch"
    /\ ChangeRateIsSet
    /\ i >= 1
    /\ pending = 0

BatchInProgress == pc \in {"batch", "drawY", "decide"}

\* C11 as stated: while a batch is running, a change of the sliders can
\* take effect: the step that stores the parameters is possible between
\* two trials of the batch.
C11_UpdatePossibleMidBatch ==
    pc = "batch" /\ i >= 1 /\ LoopContinues(i, changeRate)
        => \E tv \in TemperatureInputs, cv \in ChangeRateInputs :
               ENABLED UpdateParametersWith(tv, cv)

\* C11 amended: temperature and changeRate change only in the step of
\* tick that follows the batch and the render pass; every step of a batch
\* leaves them as they were, so all the trials of a batch see the same
\* temperature and the same trial count.
C11_ParametersFixedDuringBatch ==
    [][ /\ temperature' # temperature \/ changeRate' # changeRate
            => pc = "update" /\ pc' = "schedule"
        /\ BatchInProgress
            => temperature' = temperature /\ changeRate' = changeRate
      ]_vars

\* a batch is between two trials with stored parameters while a slider
\* holds a value that gives another temperature and another change rate
C11_Witness ==
    /\ pc = "batch"
    /\ i >= 1
    /\ LoopContinues(i, changeRate)
    /\ TemperatureIsSet
    /\ \E tv \in TemperatureInputs, cv \in ChangeRateInputs :
           /\ calcTemperatureFromInputPosition(tv) # temperature
           /\ calcChangeRateFromInputPosition(cv) # changeRate

\* the least draw and the greatest draw below 1, in millionths
EdgeDraws == {0, Micro - 1}

\* C12: for every lattice size and every draw in [0,1) the coordinates of
\* a trial are within [0,xSize) and [0,ySize), so are the four neighbour
\* indices of calcBondEnergy at every cell, and these are the indices the
\* lattice has.
C12_IndicesInBounds ==
    /\ DOMAIN state = Xs
    /\ \A x \in Xs : DOMAIN state[x] = Ys
    /\ \A r \in Draws \cup EdgeDraws :
           RandomIndex(r, xSize) \in Xs /\ RandomIndex(r, ySize) \in Ys
    /\ \A x \in Xs : xPlus1(x, xSize) \in Xs /\ xMinus1(x, xSize) \in Xs
    /\ \A y \in Ys : yPlus1(y, ySize) \in Ys /\ yMinus1(y, ySize) \in Ys
    /\ pc \in {"drawY", "decide"} \/ InTrial => trial.x \in Xs
    /\ pc = "decide" \/ InTrial => trial.y \in Ys

\* a trial was decided at a cell of the last column and the first row,
\* where the neighbours wrap around in both directions
C12_Witness ==
    /\ InTrial
    /\ xSize >= 3 /\ ySize >= 2
    /\ trial.x = xSize - 1 /\ trial.y = 0
    /\ xPlus1(trial.x, xSize) = 0
    /\ yMinus1(trial.y, ySize) = ySize - 1

\* C14: negating the spin of a cell twice in succession gives back the
\* lattice as it was before the first negation, for every lattice and
\* every cell; after the first negation the lattice is another one.
C14_NegateTwiceRestores ==
    /\ pc = "negate" /\ i = 1 => state # trial.before
    /\ pc = "negate" /\ i = 2 => state = trial.before

\* a cell of spin +1 of a lattice of both spins was negated twice
C14_Witness ==
    /\ pc = "negate"
    /\ i = 2
    /\ xSize >= 2 /\ ySize >= 2
    /\ trial.spin = 1
    /\ state[trial.x][trial.y] = 1
    /\ \E x \in Xs, y \in Ys : state[x][y] = -1

\* C15: in every tick, the first one included, the batch runs with a
\* changeRate that is an integer >= 1 and a temperature that is a positive
\* number, and it ends after exactly changeRate trials, never after none.
C15_BatchOfChangeRateTrials ==
    /\ BatchInProgress
           => /\ IsNum(changeRate) /\ changeRate.val >= 1
              /\ temperature.tag = "number" /\ TempIsPositive(temperature)
    /\ pc = "convert"
           => IsNum(changeRate) /\ i = changeRate.val /\ i >= 1

\* C16: a trial changes at most one cell: an accepted trial negates the
\* cell (x,y) it selected and a rejected one leaves the lattice as it was;
\* every other cell, xSize, ySize, temperature and changeRate are unchanged
\* by every step of a trial.
C16_TrialChangesOneCell ==
    [][ BatchInProgress /\ pc' \in {"drawY", "decide", "batch"}
            => /\ xSize' = xSize /\ ySize' = ySize
               /\ temperature' = temperature /\ changeRate' = changeRate
               /\ DOMAIN state' = DOMAIN state
               /\ \A x \in Xs : DOMAIN state'[x] = DOMAIN state[x]
               /\ pc # "decide" => state' = state
               /\ pc = "decide" =>
                      /\ \A x \in Xs, y \in Ys :
                             <<x, y>> # <<trial.x, trial.y>>
                                 => state'[x][y] = state[x][y]
                      /\ trial'.accepted
                             => state'[trial.x][trial.y] = - state[trial.x][trial.y]
                      /\ ~trial'.accepted => state' = state
      ]_vars

\* a trial of positive energy difference was accepted on a lattice of two
\* rows and two columns at least, where a cell of another row and column
\* holds the spin the selected cell had
C16_Witness ==
    /\ InTrial
    /\ xSize >= 2 /\ ySize >= 2
    /\ trial.accepted
    /\ trial.energyDifference > 0
    /\ \E x \in Xs, y \in Ys : x # trial.x /\ y # trial.y /\ state[x][y] = trial.spin

====
